---- MODULE Spec2Model ----
(***************************************************************************)
(* A model of sync.py, the reconciliation script that keeps the rows of a  *)
(* Notion database in step with the MissEvan (Maoer) drama API.            *)
(*                                                                         *)
(* Values of Python are tagged records: None, Str(s), Num(n).  Text that   *)
(* the code inspects character by character (a role label) is a sequence   *)
(* of one-character tokens; a CJK character is written as its pinyin.      *)
(* Times are whole seconds.  Waits of the Retry Controller are whole       *)
(* milliseconds.                                                           *)
(***************************************************************************)
EXTENDS Integers, Sequences, FiniteSets, TLC

VARIABLES
    dbschema,   \* the properties the Notion database declares
    store,      \* the Notion database: page id -> the page's properties
    now,        \* the clock, _now_utc(), in seconds
    localtz,    \* the UTC offset of the machine's local time zone, in seconds
    run,        \* number of the current run of main()
    pc,         \* where main() stands
    failStage,  \* the stage whose exception ended main(), or "none"
    schema,     \* main(): schema = notion_get_db_schema()
    rows,       \* main(): rows = notion_query_rows_target()
    idx,        \* main(): the loop index, 1-based
    work_id,    \* main(): work_id of the current row
    meta,       \* maoer_fetch(): meta, between its two calls
    data,       \* main(): data of the current row
    props,      \* main(): props of the current row
    rq,         \* the running _request_with_retry call
    fetchlog,   \* the last Content API call: what it got and how it ended
    hist,       \* what each run did to each page
    call,       \* the last call of a function checked on its own
    listing     \* notion_query_rows_target(): its locals and what it requested

vars == << dbschema, store, now, localtz, run, pc, failStage, schema, rows, idx,
           work_id, meta, data, props, rq, fetchlog, hist, call, listing >>

(***************************************************************************)
(* Python values                                                           *)
(***************************************************************************)
None == [t |-> "None"]

Str(s) == [t |-> "str", s |-> s]

Num(n) == [t |-> "num", n |-> n]

\* bool(v) for the values above: None, "" and 0 are false.
Truthy(v) ==
    CASE v.t = "None" -> FALSE
      [] v.t = "str"  -> v.s # ""
      [] v.t = "num"  -> v.n # 0
      [] v.t = "bool" -> v.b
      [] v.t = "text" -> v.toks # << >>
      [] v.t = "url"  -> v.toks # << >>
      [] v.t = "pieces" -> v.toks # << >>
      [] OTHER        -> TRUE

\* a or b
Or(a, b) == IF Truthy(a) THEN a ELSE b

(***************************************************************************)
(* Program constants                                                       *)
(***************************************************************************)
UPDATE_DAYS_SERIAL == 7

MAX_RETRIES == 6

\* BASE_BACKOFF = 1.0 s and JITTER = 0.3 s, in milliseconds
BASE_BACKOFF == 1000

JITTER == 300

SecondsPerDay == 86400

\* k of pick_main_cvs as maoer_fetch calls it
DefaultK == 4


(***************************************************************************)
(* Text the code looks into: a sequence of one-character tokens            *)
(***************************************************************************)
Text(toks) == [t |-> "text", toks |-> toks]

IsSpace(c) == c = " "

RECURSIVE lstrip(_)
lstrip(s) == IF s # << >> /\ IsSpace(Head(s)) THEN lstrip(Tail(s)) ELSE s

RECURSIVE rstrip(_)
rstrip(s) ==
    IF s # << >> /\ IsSpace(s[Len(s)]) THEN rstrip(SubSeq(s, 1, Len(s) - 1)) ELSE s

\* str.strip()
strip(s) == rstrip(lstrip(s))

\* w in s, for strings
Contains(s, w) ==
    \E i \in 1..(Len(s) - Len(w) + 1) : SubSeq(s, i, i + Len(w) - 1) = w

\* (v or "") for a value that is None or a text
TextOrEmpty(v) == IF v.t = "text" THEN v.toks ELSE << >>

(***************************************************************************)
(* _parse_iso_dt, should_update                                            *)
(***************************************************************************)
\* An ISO-8601 string: the wall-clock time it shows and its zone suffix,
\* "Z", an offset ("+08:00", off seconds) or none at all ("naive").
Iso(wall, tz, off) == [t |-> "iso", wall |-> wall, tz |-> tz, off |-> off]

\* A non-empty string datetime.fromisoformat rejects.
Garbage == Str("not-a-date")

_now_utc == now

\* datetime.isoformat() of an aware UTC datetime: "...+00:00"
isoformat_utc(instant) == Iso(instant, "offset", 0)

\* Returns a datetime [wall, aware, off] or None.
_parse_iso_dt(s) ==
    IF s.t = "iso"
    THEN IF s.tz = "Z"
         THEN [t |-> "datetime", wall |-> s.wall, aware |-> TRUE, off |-> 0]
         ELSE [t |-> "datetime", wall |-> s.wall, aware |-> s.tz = "offset",
               off |-> IF s.tz = "offset" THEN s.off ELSE 0]
    ELSE None

\* dt.astimezone(timezone.utc) as an instant: a naive datetime is read as
\* the machine's local time.
astimezone_utc(dt) == IF dt.aware THEN dt.wall - dt.off ELSE dt.wall - localtz

should_update_NoBoundary(is_serial_checked, last_sync_start) ==
    IF ~Truthy(last_sync_start) THEN TRUE
    ELSE LET dt == _parse_iso_dt(last_sync_start) IN
         IF dt = None THEN TRUE
         ELSE IF ~is_serial_checked THEN FALSE
         ELSE (_now_utc - astimezone_utc(dt)) > UPDATE_DAYS_SERIAL * SecondsPerDay

\* age_days = seconds / 86400.0 >= 7 is seconds >= 7 * 86400.
should_update(is_serial_checked, last_sync_start) ==
    IF ~Truthy(last_sync_start) THEN TRUE
    ELSE LET dt == _parse_iso_dt(last_sync_start) IN
         IF dt = None THEN TRUE
         ELSE IF ~is_serial_checked THEN FALSE
         ELSE (_now_utc - astimezone_utc(dt)) >= UPDATE_DAYS_SERIAL * SecondsPerDay

(***************************************************************************)
(* pick_main_cvs                                                           *)
(***************************************************************************)
BAD_WORDS_STRONG ==
    { <<"dao", "yan">>, <<"jian", "zhi">>, <<"zhi", "zuo">>, <<"ce", "hua">>,
      <<"bian", "ju">>, <<"hou", "qi">>, <<"tong", "chou">>, <<"lu", "yin">>,
      <<"pei", "yin", "dao", "yan">>, <<"pang", "bai">>, <<"bao", "mu">>,
      <<"zi", "mu">>, <<"mei", "gong">>, <<"xuan", "fa">>, <<"yun", "ying">>,
      <<"yin", "xiao">>, <<"hun", "yin">>, <<"mu3", "dai">> }

MUSIC_WORDS_STRONG ==
    { <<"yan", "chang">>, <<"zhu", "ti", "qu">>, <<"pian", "wei", "qu">>,
      <<"cha", "qu">>, <<"zuo", "ci">>, <<"zuo", "qu">>, <<"bian", "qu">>,
      <<"he", "sheng">>, <<"ge", "qu">>, <<"O", "S", "T">> }

\* character, name and group of one raw credit, as both loops read them
credit_character(item) == strip(TextOrEmpty(item.character))

credit_name(item) ==
    IF item.cv_info.t = "dict" THEN strip(TextOrEmpty(item.cv_info.name)) ELSE << >>

credit_group(item) ==
    IF item.cv_info.t = "dict" THEN strip(TextOrEmpty(item.cv_info.group)) ELSE << >>

\* The three "continue" tests of the first loop.
first_pass_keeps(item) ==
    /\ credit_name(item) # << >>
    /\ ~\E w \in MUSIC_WORDS_STRONG : Contains(credit_character(item), w)
    /\ ~\E w \in BAD_WORDS_STRONG : Contains(credit_character(item), w)

\* A second loop that lets every named credit through.
backfill_keeps_NoStoplist(item) == credit_name(item) # << >>

\* The three "continue" tests of the second loop.
backfill_keeps(item) ==
    /\ credit_name(item) # << >>
    /\ ~\E w \in MUSIC_WORDS_STRONG : Contains(credit_character(item), w)
    /\ ~\E w \in BAD_WORDS_STRONG : Contains(credit_character(item), w)

credit_score(item) ==
    LET character == credit_character(item) IN
    IF character # << >>
    THEN 20 - (IF Contains(character, <<"/">>) THEN 4 ELSE 0)
            - (IF Len(character) > 10 THEN 3 ELSE 0)
    ELSE 0 - 10

candidate(score, item) ==
    [score |-> score, character |-> credit_character(item),
     name |-> credit_name(item), group |-> credit_group(item)]

RECURSIVE first_pass(_)
first_pass(cvs) ==
    IF cvs = << >> THEN << >>
    ELSE (IF first_pass_keeps(Head(cvs))
          THEN << candidate(credit_score(Head(cvs)), Head(cvs)) >>
          ELSE << >>) \o first_pass(Tail(cvs))

RECURSIVE backfill(_)
backfill(cvs) ==
    IF cvs = << >> THEN << >>
    ELSE (IF backfill_keeps(Head(cvs)) THEN << candidate(5, Head(cvs)) >> ELSE << >>)
         \o backfill(Tail(cvs))

\* A descending sort that turns equal scores round.
sort_desc_TiesReversed(c) ==
    LET before(i, j) == c[i].score > c[j].score \/ (c[i].score = c[j].score /\ i > j)
        rank(i) == 1 + Cardinality({j \in 1..Len(c) : before(j, i)})
    IN  [r \in 1..Len(c) |-> c[CHOOSE i \in 1..Len(c) : rank(i) = r]]

\* candidates.sort(key=lambda x: x[0], reverse=True): stable, descending.
sort_desc(c) ==
    LET before(i, j) == c[i].score > c[j].score \/ (c[i].score = c[j].score /\ i < j)
        rank(i) == 1 + Cardinality({j \in 1..Len(c) : before(j, i)})
    IN  [r \in 1..Len(c) |-> c[CHOOSE i \in 1..Len(c) : rank(i) = r]]

\* candidates[:k]
take(c, k) ==
    IF k >= 0 THEN SubSeq(c, 1, IF k < Len(c) THEN k ELSE Len(c))
    ELSE SubSeq(c, 1, IF Len(c) + k > 0 THEN Len(c) + k ELSE 0)

\* candidates of pick_main_cvs when the two loops are over, before the sort
pick_candidates(cvs, k) ==
    LET first == first_pass(cvs) IN
    IF Len(first) < k THEN first \o backfill(cvs) ELSE first

\* top of pick_main_cvs: the selected candidates, in output order
pick_top(cvs, k) == take(sort_desc(pick_candidates(cvs, k)), k)

Placeholder == <<"jue", "se", "wei4", "biao", "zhu4">>

render(c) ==
    (IF c.character # << >> THEN c.character ELSE Placeholder) \o <<" - ">> \o c.name
    \o (IF c.group # << >> THEN <<"(">> \o c.group \o <<")">> ELSE << >>)

RECURSIVE join(_)
join(out) ==
    IF out = << >> THEN << >>
    ELSE IF Len(out) = 1 THEN Head(out)
    ELSE Head(out) \o <<"; ">> \o join(Tail(out))

\* The text made of top; "" is the empty sequence.
render_top(top) ==
    IF top = << >> THEN << >> ELSE join([i \in 1..Len(top) |-> render(top[i])])

pick_main_cvs(cvs, k) == render_top(pick_top(cvs, k))

(***************************************************************************)
(* parse_work_id                                                           *)
(***************************************************************************)
\* A URL or a fallback text is a sequence of pieces: Lit(s), a stretch of
\* text without digits, Digits(n), a maximal stretch of decimal digits whose
\* value is n, or OtherDigit(s), a character such as a superscript two that
\* str.isdigit() accepts, that \d does not match and that int() rejects.
Lit(s) == [t |-> "lit", s |-> s]

Digits(n) == [t |-> "digits", n |-> n]

OtherDigit(s) == [t |-> "otherdigit", s |-> s]

\* The exception int() raises.
ValueError == [t |-> "ValueError"]

Url(toks) == [t |-> "url", toks |-> toks]

Pieces(toks) == [t |-> "pieces", toks |-> toks]

\* str(n) for an integer n >= 0
str_of_int(n) == Pieces(<< Digits(n) >>)

\* re.search(r"/mdrama/(?:drama/)?(\d+)", u): the captured number at the
\* leftmost match, or None.
search_mdrama(u) ==
    LET at(i) ==
            IF i + 1 <= Len(u) /\ u[i] = Lit("/mdrama/") /\ u[i + 1].t = "digits"
            THEN Num(u[i + 1].n)
            ELSE IF /\ i + 2 <= Len(u)
                    /\ u[i] = Lit("/mdrama/")
                    /\ u[i + 1] = Lit("drama/")
                    /\ u[i + 2].t = "digits"
            THEN Num(u[i + 2].n)
            ELSE None
        hits == {i \in 1..Len(u) : at(i) # None}
    IN  IF hits = {} THEN None
        ELSE at(CHOOSE i \in hits : \A j \in hits : i <= j)

\* fallback.isdigit(): non-empty, and every character a digit of some kind
isdigit(f) == f # << >> /\ \A i \in 1..Len(f) : f[i].t \in {"digits", "otherdigit"}

\* int(f) of a text for which isdigit() holds: decimal digits only, or it raises
int_of(f) == IF Len(f) = 1 /\ f[1].t = "digits" THEN Num(f[1].n) ELSE ValueError

\* Returns Num(id), None, or ValueError when int(fallback) raises.
parse_work_id(work_url, fallback) ==
    LET m == search_mdrama(work_url.toks) IN
    IF m # None THEN m
    ELSE IF fallback.toks # << >> /\ isdigit(fallback.toks) THEN int_of(fallback.toks)
    ELSE None

(***************************************************************************)
(* maoer_fetch: the merge of the two responses                             *)
(***************************************************************************)
Bool(b) == [t |-> "bool", b |-> b]

\* latest_count from the "info" of the episode listing.
latest_count_of(info) ==
    IF info.pagination.t = "dict" /\ info.pagination.count # None
    THEN info.pagination.count
    ELSE IF info.Datas.t = "list" /\ info.Datas.len > 0
    THEN Num(info.Datas.len)
    ELSE None

\* The dict maoer_fetch returns, given what the two calls returned.
maoer_fetch(meta_, detail_) ==
    [ title        |-> meta_.drama.name,
      cover_url    |-> meta_.drama.cover,
      price        |-> meta_.drama.price,
      is_serial    |-> Truthy(meta_.drama.serialize),
      newest_title |-> meta_.drama.newest,
      latest_count |-> latest_count_of(detail_.info),
      cv_text      |-> pick_main_cvs(meta_.cvs, DefaultK),
      last_sync    |-> isoformat_utc(_now_utc) ]

(***************************************************************************)
(* build_props, notion_cover_payload                                       *)
(***************************************************************************)
\* The destination field names build_props may write.
CandidateFields ==
    { "Title", "Platform", "Work ID", "Work URL", "Cover URL", "Price",
      "Is Serial", "Latest Episode", "Latest Episode No", "Last Sync", "CV" }

\* A property value of the patch: its Notion type and the value in it.
Payload(type, v) == [type |-> type, v |-> v]

\* put() without the membership test.
put_NoSchemaCheck(schema_, props_, name, payload) ==
    [n \in DOMAIN props_ \cup {name} |-> IF n = name THEN payload ELSE props_[n]]

\* put() of build_props: props[name] = payload if the schema has the name.
put(schema_, props_, name, payload) ==
    IF name \in schema_
    THEN [n \in DOMAIN props_ \cup {name} |-> IF n = name THEN payload ELSE props_[n]]
    ELSE props_

EmptyProps == [n \in {} |-> None]

DefaultUrl(id) == Url(<< Lit("https://www.missevan.com"), Lit("/mdrama/"), Digits(id) >>)

\* A title taken as the source gives it.
title_content_NoFallback(d, id) == d.title

\* data.get("title") or f"maoer-{work_id}"
title_content(d, id) == Or(d.title, Str("maoer-" \o ToString(id)))

build_props(schema_, id, work_url, d) ==
    LET p1  == put(schema_, EmptyProps, "Title", Payload("title", title_content(d, id)))
        p2  == put(schema_, p1, "Platform", Payload("select", Str("maoer")))
        p3  == put(schema_, p2, "Work ID", Payload("rich_text", str_of_int(id)))
        p4  == put(schema_, p3, "Work URL",
                   Payload("url", IF work_url.toks # << >> THEN work_url ELSE DefaultUrl(id)))
        p5  == put(schema_, p4, "Cover URL", Payload("url", d.cover_url))
        p6  == put(schema_, p5, "Price", Payload("number", d.price))
        p7  == put(schema_, p6, "Is Serial", Payload("checkbox", Bool(d.is_serial)))
        p8  == put(schema_, p7, "Latest Episode",
                   Payload("rich_text", Or(d.newest_title, Str(""))))
        p9  == put(schema_, p8, "Latest Episode No", Payload("number", d.latest_count))
        p10 == put(schema_, p9, "Last Sync", Payload("date", d.last_sync))
    IN  IF d.cv_text # << >>
        THEN put(schema_, p10, "CV", Payload("rich_text", Text(d.cv_text)))
        ELSE p10

notion_cover_payload(cover_url) ==
    IF ~Truthy(cover_url) THEN None ELSE [t |-> "external", url |-> cover_url]

(***************************************************************************)
(* _request_with_retry                                                     *)
(***************************************************************************)
\* A response is [kind, status, retry_after]; retry_after is the Retry-After
\* header: None (absent), Str("") (empty), NumStr(d) (the decimal number d of
\* seconds, d >= 0) or any other string.  NetErr is a requests.RequestException.
NumStr(d) == [t |-> "numstr", n |-> d]

Resp(status, ra) == [kind |-> "response", status |-> status, retry_after |-> ra]

NetErr == [kind |-> "neterr", status |-> 0, retry_after |-> None]

RECURSIVE Pow2(_)
Pow2(n) == IF n <= 0 THEN 1 ELSE 2 * Pow2(n - 1)

\* float(ra), in milliseconds, or None when float() raises
float_ms(ra) == IF ra.t = "numstr" THEN Num(ra.n * 1000) ELSE None

backoff_ms(attempt) == BASE_BACKOFF * Pow2(attempt - 1)

\* A 429 that always backs off exponentially.
wait_429_IgnoreRetryAfter(ra, attempt, jitter) == backoff_ms(attempt) + jitter

\* The wait of the 429 branch; jitter is random.random() * JITTER.
wait_429(ra, attempt, jitter) ==
    LET wait == IF Truthy(ra) THEN float_ms(ra) ELSE None IN
    (IF wait = None THEN backoff_ms(attempt) ELSE wait.n) + jitter

\* Retries 500 as well.
retryable_status_With500(status) == status \in {500, 502, 503, 504}

\* r.status_code in (502, 503, 504)
retryable_status(status) == status \in {502, 503, 504}

\* A loop that runs one attempt too many.
last_attempt_OffByOne(attempt) == attempt = MAX_RETRIES + 1

\* attempt is the last value of range(1, MAX_RETRIES + 1)
last_attempt(attempt) == attempt = MAX_RETRIES

\* The state of one call: attempt is the number of requests issued, sleeps
\* the number of time.sleep calls, resp the last outcome, wait and jitter
\* those of the last sleep.
NewCall ==
    [state |-> "running", attempt |-> 0, sleeps |-> 0, resp |-> None,
     slept |-> FALSE, wait |-> 0, jitter |-> 0]

IdleCall == [NewCall EXCEPT !.state = "idle"]

\* One pass of the for loop: the request gets resp (or raises NetErr).
retry_step(r, resp, jitter) ==
    LET attempt == r.attempt + 1
        after(wait) ==
            [state   |-> IF last_attempt(attempt) THEN "raised" ELSE "running",
             attempt |-> attempt, sleeps |-> r.sleeps + 1, resp |-> resp,
             slept |-> TRUE, wait |-> wait, jitter |-> jitter]
    IN  IF resp.kind = "neterr" THEN after(backoff_ms(attempt) + jitter)
        ELSE IF resp.status = 429
        THEN after(wait_429(resp.retry_after, attempt, jitter))
        ELSE IF retryable_status(resp.status)
        THEN after(backoff_ms(attempt) + jitter)
        ELSE [state |-> "returned", attempt |-> attempt, sleeps |-> r.sleeps,
              resp |-> resp, slept |-> FALSE, wait |-> 0, jitter |-> 0]

\* r.raise_for_status(): raises for 400..599
raises_for_status(status) == status >= 400 /\ status < 600

(***************************************************************************)
(* The Notion database and the rows read from it                           *)
(***************************************************************************)
\* page.get("properties").get(name), None when the page has no such property
prop_of(page, name) == IF name \in DOMAIN page.props THEN page.props[name] ELSE None

\* _get_prop_text(prop).strip() of a url property
get_url(page, name) ==
    LET v == prop_of(page, name) IN IF v.t = "url" THEN v ELSE Url(<< >>)

\* _get_prop_text(prop).strip() of a rich_text property holding an id
get_pieces(page, name) ==
    LET v == prop_of(page, name) IN IF v.t = "pieces" THEN v ELSE Pieces(<< >>)

\* _get_prop_text(prop).strip() of a rich_text property
get_text(page, name) ==
    LET v == prop_of(page, name) IN IF v.t = "text" THEN strip(v.toks) ELSE << >>

\* A reader that never finds the date.
_get_prop_date_start_WrongType(page, name) == Str("")

_get_prop_date_start(page, name) ==
    LET v == prop_of(page, name) IN IF v.t = "iso" THEN v ELSE Str("")

_get_prop_checkbox(page, name) ==
    LET v == prop_of(page, name) IN IF v.t = "bool" THEN v.b ELSE FALSE

\* The dict notion_query_rows_target appends for one page.
row_of(page_id, page) ==
    [ page_id           |-> page_id,
      work_url          |-> get_url(page, "Work URL"),
      work_id_text      |-> get_pieces(page, "Work ID"),
      main_cv_override  |-> get_text(page, "Main CV Override"),
      last_sync_start   |-> _get_prop_date_start(page, "Last Sync"),
      is_serial_current |-> _get_prop_checkbox(page, "Is Serial") ]

\* body of notion_update_page; cover is None when the key is left out.
update_body(properties, cover_url) ==
    [properties |-> properties, cover |-> notion_cover_payload(cover_url)]

\* What a PATCH answered 200 does to a page: the properties named in the
\* body take the body's values, the others stay.
apply_patch(page, body) ==
    [ props |-> [n \in DOMAIN page.props |->
                    IF n \in DOMAIN body.properties THEN body.properties[n].v
                    ELSE page.props[n]],
      cover |-> IF body.cover # None THEN body.cover.url ELSE page.cover ]

\* A main() that never looks at the override.
apply_override_Ignored(row, d) == d

\* main(): the manual override replaces the ranked cast text.
apply_override(row, d) ==
    LET override == strip(row.main_cv_override) IN
    IF override # << >> THEN [d EXCEPT !.cv_text = override] ELSE d

(***************************************************************************)
(* notion_query_rows_target: the cursor and the database's answers         *)
(***************************************************************************)
\* The locals of notion_query_rows_target: rows, next_cursor, and
\* body["start_cursor"] (None while the key is not set); requests are the
\* cursors sent so far, tokens the next_cursor of every answer, has_more
\* that of the last answer.
IdleListing ==
    [state |-> "idle", rows |-> << >>, next_cursor |-> None, start_cursor |-> None,
     requests |-> << >>, tokens |-> << >>, has_more |-> FALSE]

\* A loop that never sets the cursor.
body_cursor_NeverSet(l) == None

\* body["start_cursor"] of the next request: set anew when next_cursor is truthy
body_cursor(l) == IF Truthy(l.next_cursor) THEN l.next_cursor ELSE l.start_cursor

\* if not data.get("has_more"): break
loop_ends(data_) == ~data_.has_more

\* What the database of pages 1..Len(db) answers to a query with this
\* start_cursor: up to `size` records from the cursor on, whether more
\* follow and, if so, the token of the next page.  A token is the number of
\* the record the next page starts with.
query_answer(db, cursor, size, stale) ==
    LET first == IF cursor = None THEN 1 ELSE cursor.n
        last == IF first + size - 1 < Len(db) THEN first + size - 1 ELSE Len(db)
        more == last < Len(db)
    IN  [ results |-> [i \in 1..(IF last >= first THEN last - first + 1 ELSE 0) |->
                         first + i - 1],
          has_more |-> more,
          next_cursor |-> IF more \/ stale THEN Num(last + 1) ELSE None ]

(***************************************************************************)
(* Bounds and the inputs of a run                                          *)
(***************************************************************************)
\* pages in the database
NumPages == 2

\* records the database returns per query (the program asks for up to 100)
PageSize == 1

Pages == 1..NumPages

\* the clock when the first run starts
T0 == 100 * SecondsPerDay

Days(n) == n * SecondsPerDay

FullSchema == CandidateFields \cup {"Main CV Override"}

SchemaChoices ==
    { FullSchema,
      FullSchema \ {"Last Sync"},
      {"Work URL", "Title", "Is Serial", "Latest Episode No"} }

UrlWithId == Url(<< Lit("https://www.missevan.com"), Lit("/mdrama/"), Digits(91093) >>)

UrlNoId == Url(<< Lit("https://www.missevan.com/mdrama") >>)

\* A page of a database declaring `declared`: the values given, for the
\* properties it declares; every other declared property is empty.
PageOf(declared, url, wid, ov, ls, ser) ==
    [ props |-> [n \in declared |->
                    CASE n = "Work URL"         -> url
                      [] n = "Work ID"          -> wid
                      [] n = "Main CV Override" -> Text(ov)
                      [] n = "Last Sync"        -> ls
                      [] n = "Is Serial"        -> Bool(ser)
                      [] n = "Price"            -> Num(199)
                      [] OTHER                  -> None],
      cover |-> Str("cover0") ]

PageChoices(declared) ==
    { PageOf(declared, UrlWithId, Pieces(<< >>), << >>, None, FALSE),
      PageOf(declared, UrlNoId, Pieces(<< Digits(7) >>), <<" ", "ov", " ">>,
             Iso(T0 - Days(8), "Z", 0), TRUE),
      PageOf(declared, UrlNoId, Pieces(<< Lit("abc") >>), << >>, None, FALSE),
      PageOf(declared, UrlWithId, Pieces(<< >>), << >>,
             Iso(T0 - Days(3), "offset", 0), TRUE),
      PageOf(declared, UrlWithId, Pieces(<< >>), << >>,
             Iso(T0 - Days(8), "offset", 0), FALSE) }

UrlZero == Url(<< Lit("https://www.missevan.com"), Lit("/mdrama/"), Digits(0) >>)

\* Further pages of a single run: a blank override, a work numbered 0, and a
\* Work ID text that is a superscript two.
MorePageChoices(declared) ==
    PageChoices(declared) \cup
    { PageOf(declared, UrlWithId, Pieces(<< >>), <<" ">>, None, FALSE),
      PageOf(declared, UrlZero, Pieces(<< >>), << >>, None, FALSE),
      PageOf(declared, UrlNoId, Pieces(<< OtherDigit("^2") >>), << >>, None, FALSE) }

Credit(character, name, group) ==
    [character |-> character,
     cv_info |-> [t |-> "dict", name |-> name, group |-> group]]

\* The works of the Content API: what getdrama and what
\* getdramaepisodedetails answer for each with status 200.
Catalog ==
    { [ meta |->
          [ drama |-> [name |-> Str("X"), cover |-> Str("cover1"), price |-> Num(5),
                       serialize |-> Bool(TRUE), newest |-> Str("ep24")],
            cvs |-> << Credit(Text(<<"A">>), Text(<<"N1">>), None),
                       Credit(Text(<<"zhu", "ti", "qu", "yan", "chang">>),
                              Text(<<"N2">>), None) >> ],
        detail |->
          [info |-> [pagination |-> [t |-> "dict", count |-> Num(24)],
                     Datas |-> [t |-> "list", len |-> 10]]] ],
      [ meta |->
          [ drama |-> [name |-> None, cover |-> None, price |-> None,
                       serialize |-> None, newest |-> None],
            cvs |-> << >> ],
        detail |->
          [info |-> [pagination |-> None, Datas |-> [t |-> "list", len |-> 0]]] ] }

MetaChoices == { w.meta : w \in Catalog }

\* The listings of the works whose metadata is m.
DetailChoices(m) == { w.detail : w \in { x \in Catalog : x.meta = m } }

\* Statuses of the Content API; a network error as well.
FetchOutcomes == { Resp(st, None) : st \in {200, 404, 429, 503} } \cup { NetErr }

\* Answers to the PATCH of a page.
WriteOutcomes == { Resp(st, None) : st \in {200, 304, 400, 429} } \cup { NetErr }

\* Seconds between the start of one run and the start of the next.
ElapsedChoices == { 60, Days(UPDATE_DAYS_SERIAL) }

NoCall == [fn |-> "none"]

NoFetch == [fn |-> "none", resp |-> None, attempts |-> 0, outcome |-> "none"]

Event(p, ev, ser) == [run |-> run, page |-> p, ev |-> ev, at |-> now, serial |-> ser]

(***************************************************************************)
(* main()                                                                  *)
(***************************************************************************)
\* The script starts on a database of n pages, each one of choices[dbschema].
InitWith(n, choices) ==
    /\ dbschema \in SchemaChoices
    /\ store \in [1..n -> choices[dbschema]]
    /\ now = T0
    /\ localtz = 0
    /\ run = 1
    /\ pc = "healthcheck"
    /\ failStage = "none"
    /\ schema = {}
    /\ rows = << >>
    /\ idx = 0
    /\ work_id = None
    /\ meta = None
    /\ data = None
    /\ props = EmptyProps
    /\ rq = IdleCall
    /\ fetchlog = NoFetch
    /\ hist = {}
    /\ call = NoCall
    /\ listing = IdleListing

Init == InitWith(NumPages, [d \in SchemaChoices |-> MorePageChoices(d)])

locals == << work_id, meta, data, props >>

world == << dbschema, store, now, localtz, run >>

\* An exception leaves main(): the run is over.
Abort(stage) ==
    /\ pc' = "failed"
    /\ failStage' = stage

\* notion_healthcheck(): GET /users/me, no retry.
Healthcheck ==
    /\ pc = "healthcheck"
    /\ \E r \in {Resp(200, None), Resp(401, None), NetErr} :
          IF r.kind = "neterr" \/ raises_for_status(r.status)
          THEN Abort("HEALTHCHECK")
          ELSE pc' = "get_schema" /\ UNCHANGED failStage
    /\ UNCHANGED << world, schema, rows, idx, locals, rq, fetchlog, hist, call, listing >>

\* notion_get_db_schema(): GET /databases/{id}, no retry.
GetSchema ==
    /\ pc = "get_schema"
    /\ \E r \in {Resp(200, None), Resp(404, None), NetErr} :
          IF r.kind = "neterr" \/ raises_for_status(r.status)
          THEN Abort("SCHEMA") /\ UNCHANGED schema
          ELSE pc' = "query" /\ schema' = dbschema /\ UNCHANGED failStage
    /\ UNCHANGED << world, rows, idx, locals, rq, fetchlog, hist, call, listing >>

\* notion_query_rows_target(): one pass of its while loop.  The database
\* answers with a page of `size` records; `stale` is whether its last page
\* still carries a token.
QueryPageWith(sizes, stales) ==
    /\ pc = "query"
    /\ \E r \in {Resp(200, None), Resp(500, None), NetErr}, size \in sizes, stale \in stales :
          LET cursor == body_cursor(listing)
              sent == [listing EXCEPT !.state = "running",
                                      !.start_cursor = cursor,
                                      !.requests = Append(@, cursor)]
              data_ == query_answer(store, cursor, size, stale)
              got == listing.rows \o
                     [i \in 1..Len(data_.results) |->
                        row_of(data_.results[i], store[data_.results[i]])]
              read == [sent EXCEPT !.rows = got,
                                   !.tokens = Append(@, data_.next_cursor),
                                   !.has_more = data_.has_more]
          IN  IF r.kind = "neterr" \/ raises_for_status(r.status)
              THEN /\ Abort("LIST")
                   /\ listing' = [sent EXCEPT !.state = "raised"]
                   /\ UNCHANGED << rows, idx >>
              ELSE IF loop_ends(data_)
              THEN /\ listing' = [read EXCEPT !.state = "returned"]
                   /\ pc' = "row"
                   /\ rows' = got
                   /\ idx' = 1
                   /\ UNCHANGED failStage
              ELSE /\ listing' = [read EXCEPT !.next_cursor = data_.next_cursor]
                   /\ UNCHANGED << pc, failStage, rows, idx >>
    /\ UNCHANGED << world, schema, locals, rq, fetchlog, hist, call >>

\* The listing of one run: pages of PageSize records.
QueryRows == QueryPageWith({PageSize}, {FALSE})

\* A loop that stays on its row.
next_row_Stuck(i) == i

\* for idx, row in enumerate(rows, start=1): the index of the row after row i
next_row(i) == i + 1

\* The head of the loop body: resolve the id and ask the scheduler.
ProcessRow ==
    /\ pc = "row"
    /\ idx <= Len(rows)
    /\ LET row == rows[idx]
           id == parse_work_id(row.work_url, row.work_id_text)
       IN  IF id = ValueError
           THEN /\ Abort("RESOLVE")
                /\ UNCHANGED << hist, idx, work_id >>
           ELSE IF ~Truthy(id)
           THEN /\ hist' = hist \cup {Event(row.page_id, "skip_id", row.is_serial_current)}
                /\ idx' = next_row(idx)
                /\ UNCHANGED << pc, failStage, work_id >>
           ELSE IF ~should_update(row.is_serial_current, row.last_sync_start)
           THEN /\ hist' = hist \cup {Event(row.page_id, "skip_policy", row.is_serial_current)}
                /\ idx' = next_row(idx)
                /\ UNCHANGED << pc, failStage, work_id >>
           ELSE /\ hist' = hist \cup {Event(row.page_id, "due", row.is_serial_current)}
                /\ work_id' = id
                /\ pc' = "get_drama"
                /\ UNCHANGED << idx, failStage >>
    /\ UNCHANGED << world, schema, rows, meta, data, props, rq, fetchlog, call, listing >>

\* The loop has run out of rows: main() returns.
Finish ==
    /\ pc = "row"
    /\ idx > Len(rows)
    /\ pc' = "done"
    /\ UNCHANGED << world, failStage, schema, rows, idx, locals, rq, fetchlog, hist, call, listing >>

\* maoer_get_drama(): one requests.get, then raise_for_status.
GetDrama ==
    /\ pc = "get_drama"
    /\ \E r \in FetchOutcomes :
          /\ fetchlog' = [fn |-> "maoer_get_drama", resp |-> r, attempts |-> 1,
                          outcome |-> IF r.kind = "response" /\ r.status = 200
                                      THEN "ok" ELSE "raised"]
          /\ IF r.kind = "response" /\ r.status = 200
             THEN /\ \E m \in MetaChoices : meta' = m
                  /\ pc' = "get_episode_details"
                  /\ hist' = hist \cup {Event(rows[idx].page_id, "got_drama",
                                               rows[idx].is_serial_current)}
                  /\ UNCHANGED failStage
             ELSE Abort("FETCH") /\ UNCHANGED << meta, hist >>
    /\ UNCHANGED << world, schema, rows, idx, work_id, data, props, rq, call, listing >>

\* maoer_get_episode_details(), the rest of maoer_fetch(), the override and
\* build_props(): everything up to the PATCH.
GetEpisodeDetails ==
    /\ pc = "get_episode_details"
    /\ \E r \in FetchOutcomes :
          /\ fetchlog' = [fn |-> "maoer_get_episode_details", resp |-> r,
                          attempts |-> 1,
                          outcome |-> IF r.kind = "response" /\ r.status = 200
                                      THEN "ok" ELSE "raised"]
          /\ IF r.kind = "response" /\ r.status = 200
             THEN \E detail \in DetailChoices(meta) :
                    LET d == apply_override(rows[idx], maoer_fetch(meta, detail)) IN
                    /\ data' = d
                    /\ props' = build_props(schema, work_id.n, rows[idx].work_url, d)
                    /\ rq' = NewCall
                    /\ pc' = "update"
                    /\ hist' = hist \cup {Event(rows[idx].page_id, "got_episodes",
                                                 rows[idx].is_serial_current)}
                    /\ UNCHANGED failStage
             ELSE Abort("FETCH") /\ UNCHANGED << data, props, rq, hist >>
    /\ UNCHANGED << world, schema, rows, idx, work_id, meta, call, listing >>

\* notion_update_page(): one attempt of the wrapped PATCH and, when the
\* wrapper returns or raises, the rest of the loop body.  "got_drama" and
\* "got_episodes" are the two fetches that succeeded, "update_failed" is
\* the print of a status other than 200, "updated" the print that ends the
\* loop body, "written" the change a 200 makes to the page.
UpdatePageWith(outcomes, jitters) ==
    /\ pc = "update"
    /\ rq.state = "running"
    /\ \E r \in outcomes, j \in jitters :
          LET q == retry_step(rq, r, j)
              page_id == rows[idx].page_id
              ser == rows[idx].is_serial_current
              sent == hist \cup {Event(page_id, "patch", ser)}
          IN  /\ rq' = q
              /\ IF q.state = "running"
                 THEN /\ hist' = sent
                      /\ UNCHANGED << pc, failStage, idx, store >>
                 ELSE IF q.state = "raised"
                 THEN /\ hist' = sent
                      /\ Abort("WRITE")
                      /\ UNCHANGED << idx, store >>
                 ELSE IF raises_for_status(r.status)
                 THEN /\ hist' = sent \cup {Event(page_id, "update_failed", ser)}
                      /\ Abort("WRITE")
                      /\ UNCHANGED << idx, store >>
                 ELSE /\ store' = IF r.status = 200
                                  THEN [store EXCEPT ![page_id] =
                                          apply_patch(@, update_body(props, data.cover_url))]
                                  ELSE store
                      /\ hist' = sent \cup
                                 {Event(page_id, "updated", ser)} \cup
                                 (IF r.status = 200
                                  THEN {Event(page_id, "written", ser)}
                                  ELSE {Event(page_id, "update_failed", ser)})
                      /\ idx' = next_row(idx)
                      /\ pc' = "row"
                      /\ UNCHANGED failStage
    /\ UNCHANGED << dbschema, now, localtz, run, schema, rows, locals, fetchlog, call, listing >>

UpdatePage == UpdatePageWith(WriteOutcomes, {0})

\* The script is started again, some time after the start of the first run.
NextRun ==
    /\ pc \in {"done", "failed"}
    /\ run = 1
    /\ run' = 2
    /\ \E e \in ElapsedChoices : now' = now + e
    /\ pc' = "healthcheck"
    /\ failStage' = "none"
    /\ schema' = {}
    /\ rows' = << >>
    /\ idx' = 0
    /\ work_id' = None
    /\ meta' = None
    /\ data' = None
    /\ props' = EmptyProps
    /\ rq' = IdleCall
    /\ fetchlog' = NoFetch
    /\ listing' = IdleListing
    /\ UNCHANGED << dbschema, store, localtz, hist, call >>

OneRun ==
    \/ Healthcheck
    \/ GetSchema
    \/ QueryRows
    \/ ProcessRow
    \/ Finish
    \/ GetDrama
    \/ GetEpisodeDetails
    \/ UpdatePage

Next == OneRun

\* One run of main().
Spec == Init /\ [][Next]_vars

NextTwice == OneRun \/ NextRun

\* pages in the database that is synchronised twice
NumPagesTwice == 1

\* Two runs of main(), one after the other.
SpecTwoRuns ==
    InitWith(NumPagesTwice, [d \in SchemaChoices |-> PageChoices(d)]) /\ [][NextTwice]_vars

(***************************************************************************)
(* notion_update_page() on its own, with every kind of answer              *)
(***************************************************************************)
RetryAfterChoices ==
    { None, Str(""), NumStr(0), NumStr(2), Str("Wed, 21 Oct 2026 07:28:00 GMT") }

RetryOutcomes ==
    { Resp(st, ra) : st \in {200, 304, 400, 404, 429, 500, 502, 503, 504},
                     ra \in RetryAfterChoices } \cup { NetErr }

\* random.random() * JITTER lies in [0, JITTER)
JitterDraws == { 0, JITTER \div 2, JITTER - 1 }

ParkedStore ==
    [i \in Pages |-> PageOf(FullSchema, UrlWithId, Pieces(<< >>), << >>, None, FALSE)]

\* main() about to call notion_update_page for its first row.
InitUpdate ==
    /\ dbschema = FullSchema
    /\ store = ParkedStore
    /\ now = T0
    /\ localtz = 0
    /\ run = 1
    /\ pc = "update"
    /\ failStage = "none"
    /\ schema = FullSchema
    /\ rows = [i \in Pages |-> row_of(i, ParkedStore[i])]
    /\ idx = 1
    /\ work_id = Num(91093)
    /\ \E w \in Catalog :
          /\ meta = w.meta
          /\ data = maoer_fetch(w.meta, w.detail)
          /\ props = build_props(FullSchema, 91093, UrlWithId, maoer_fetch(w.meta, w.detail))
    /\ rq = NewCall
    /\ fetchlog = [fn |-> "maoer_get_episode_details", resp |-> Resp(200, None),
                   attempts |-> 1, outcome |-> "ok"]
    /\ hist = {Event(1, "due", FALSE)}
    /\ call = NoCall
    /\ listing = IdleListing

UpdatePageAny == UpdatePageWith(RetryOutcomes, JitterDraws)

SpecRetry == InitUpdate /\ [][UpdatePageAny]_vars

(***************************************************************************)
(* notion_query_rows_target() on its own, with pages of any size           *)
(***************************************************************************)
\* most records in the database that is listed
NumListed == 4

\* Databases of 0..NumListed records.
ListedStores ==
    UNION { [1..n -> { PageOf(FullSchema, UrlWithId, Pieces(<< >>), << >>, None, FALSE),
                       PageOf(FullSchema, UrlNoId, Pieces(<< Digits(7) >>), <<"ov">>,
                              Iso(T0 - Days(8), "Z", 0), TRUE) }] : n \in 0..NumListed }

\* main() about to call notion_query_rows_target.
InitList ==
    /\ dbschema = FullSchema
    /\ store \in ListedStores
    /\ now = T0
    /\ localtz = 0
    /\ run = 1
    /\ pc = "query"
    /\ failStage = "none"
    /\ schema = FullSchema
    /\ rows = << >>
    /\ idx = 0
    /\ work_id = None
    /\ meta = None
    /\ data = None
    /\ props = EmptyProps
    /\ rq = IdleCall
    /\ fetchlog = NoFetch
    /\ hist = {}
    /\ call = NoCall
    /\ listing = IdleListing

QueryRowsAny == QueryPageWith(1..(PageSize + 1), BOOLEAN)

SpecList == InitList /\ [][QueryRowsAny]_vars

(***************************************************************************)
(* Functions called on their own: one call, with any arguments             *)
(***************************************************************************)
Parked ==
    /\ dbschema = FullSchema
    /\ store = ParkedStore
    /\ run = 1
    /\ pc = "off"
    /\ failStage = "none"
    /\ schema = {}
    /\ rows = << >>
    /\ idx = 0
    /\ work_id = None
    /\ meta = None
    /\ data = None
    /\ props = EmptyProps
    /\ rq = IdleCall
    /\ fetchlog = NoFetch
    /\ hist = {}
    /\ call = NoCall
    /\ listing = IdleListing

main_vars ==
    << dbschema, store, now, localtz, run, pc, failStage, schema, rows, idx,
       work_id, meta, data, props, rq, fetchlog, hist, listing >>

Hours(n) == n * 3600

TzChoices == { 0, Hours(8), 0 - Hours(5) }

\* Last Sync texts around the 7-day line of T0, in every zone notation.
LastSyncChoices ==
    { None, Str(""), Garbage } \cup
    { Iso(T0 - age + off, tz, off) :
        age \in { Days(8), Days(7) + 1, Days(7), Days(7) - 1, Days(3), 0, 0 - Days(1) },
        tz \in {"Z"}, off \in {0} } \cup
    { Iso(T0 - age + off, tz, off) :
        age \in { Days(8), Days(7) + 1, Days(7), Days(7) - 1, Days(3), 0, 0 - Days(1) },
        tz \in {"offset"}, off \in {0, Hours(8)} } \cup
    { Iso(T0 - age, tz, off) :
        age \in { Days(8), Days(7) + 1, Days(7), Days(7) - 1, Days(3), 0, 0 - Days(1) },
        tz \in {"naive"}, off \in {0} }

InitSched == Parked /\ now \in {T0, T0 + 1} /\ localtz \in TzChoices

CallShouldUpdate ==
    /\ call = NoCall
    /\ \E ser \in BOOLEAN, ls \in LastSyncChoices :
          call' = [fn |-> "should_update", is_serial_checked |-> ser,
                   last_sync_start |-> ls, ret |-> should_update(ser, ls)]
    /\ UNCHANGED main_vars

SpecSched == InitSched /\ [][CallShouldUpdate]_vars

\* Source snapshots: every field of the dict maoer_fetch returns, with and
\* without a value.
DataChoices ==
    { [ title |-> ti, cover_url |-> co, price |-> pr, is_serial |-> sn.is_serial,
        newest_title |-> sn.newest_title, latest_count |-> lc, cv_text |-> cv,
        last_sync |-> isoformat_utc(T0) ] :
        ti \in { None, Str(""), Str("X") },
        co \in { None, Str("cover1") },
        pr \in { None, Num(5) },
        sn \in { [is_serial |-> TRUE, newest_title |-> Str("ep24")],
                 [is_serial |-> FALSE, newest_title |-> None] },
        lc \in { None, Num(24) },
        cv \in { << >>, <<"A", " - ", "N1">> } }

WorkIdChoices == { 7, 91093 }

InitPure == Parked /\ now = T0 /\ localtz = 0

CallBuildProps ==
    /\ call = NoCall
    /\ \E sch \in SUBSET CandidateFields, d \in DataChoices, id \in WorkIdChoices :
          call' = [fn |-> "build_props", schema |-> sch, work_id |-> id,
                   work_url |-> UrlWithId, data |-> d,
                   ret |-> build_props(sch, id, UrlWithId, d)]
    /\ UNCHANGED main_vars

SpecBuild == InitPure /\ [][CallBuildProps]_vars

\* Answers of getdrama: every field with and without a value.
MetaVariants ==
    { [ drama |-> [name |-> na, cover |-> co, price |-> pr, serialize |-> se,
                   newest |-> ne],
        cvs |-> cv ] :
        na \in { None, Str("X") },
        co \in { None, Str("cover1") },
        pr \in { None, Num(0), Num(5) },
        se \in { None, Bool(FALSE), Bool(TRUE), Num(1) },
        ne \in { None, Str("ep24") },
        cv \in { << >>, << Credit(Text(<<"A">>), Text(<<"N1">>), None) >> } }

\* Answers of getdramaepisodedetails: pagination absent, without a count,
\* with a count of 0, of 3 and of 24; Datas absent, empty, of 3 and of 10
\* items.  The listing names the work too.
InfoChoices ==
    { [pagination |-> pg, Datas |-> ds, name |-> Str("Y")] :
        pg \in { None } \cup
               { [t |-> "dict", count |-> c] : c \in { None, Num(0), Num(3), Num(24) } },
        ds \in { None } \cup { [t |-> "list", len |-> n] : n \in { 0, 3, 10 } } }

CallMaoerFetch ==
    /\ call = NoCall
    /\ \E m \in MetaVariants, info \in InfoChoices :
          call' = [fn |-> "maoer_fetch", meta |-> m, info |-> info,
                   ret |-> maoer_fetch(m, [info |-> info])]
    /\ UNCHANGED main_vars

SpecFetch == InitPure /\ [][CallMaoerFetch]_vars

Host == Lit("https://www.missevan.com")

\* References: with the id right after /mdrama/, after /mdrama/drama/, with
\* no id, with two ids, with digits elsewhere, with a digit \d does not match.
UrlChoices ==
    { Url(<< >>),
      UrlWithId,
      UrlNoId,
      UrlZero,
      Url(<< Host, Lit("/mdrama/"), Lit("drama/"), Digits(91093) >>),
      Url(<< Host, Lit("/mdrama/"), Digits(91093), Lit("?p="), Digits(3) >>),
      Url(<< Host, Lit("/mdrama/"), Lit("abc"), Digits(5) >>),
      Url(<< Host, Lit("/sound/"), Digits(12) >>),
      Url(<< Host, Lit("/mdrama/"), Digits(1), Lit("/x"), Lit("/mdrama/"), Digits(2) >>),
      Url(<< Host, Lit("/mdrama/"), OtherDigit("^2") >>),
      Url(<< Host, Lit("/mdrama/"), Lit("drama/"), Lit("drama/"), Digits(5) >>),
      Url(<< Lit(" "), Host, Lit("/mdrama/"), Lit("drama/"), Digits(0), Lit(" ") >>) }

\* Fallback texts: empty, decimal, not a number, and digits int() rejects.
FallbackChoices ==
    { Pieces(<< >>),
      Pieces(<< Digits(7) >>),
      Pieces(<< Digits(0) >>),
      Pieces(<< Lit("abc") >>),
      Pieces(<< Digits(7), Lit("a") >>),
      Pieces(<< Lit("-"), Digits(7) >>),
      Pieces(<< Lit(" "), Digits(7) >>),
      Pieces(<< OtherDigit("^2") >>),
      Pieces(<< Digits(1), OtherDigit("^2") >>) }

CallParseWorkId ==
    /\ call = NoCall
    /\ \E u \in UrlChoices, f \in FallbackChoices :
          call' = [fn |-> "parse_work_id", work_url |-> u, fallback |-> f,
                   ret |-> parse_work_id(u, f)]
    /\ UNCHANGED main_vars

SpecResolve == InitPure /\ [][CallParseWorkId]_vars

\* most raw credits in one metadata answer
MaxCvs == 3

\* largest k
MaxK == 4

LongLabel == <<"a", "b", "c", "d", "e", "f", "g", "h", "i", "j", "k">>

CreditChoices ==
    { Credit(Text(<<"A">>), Text(<<"N1">>), None),
      Credit(Text(<<"zhu", "ti", "qu", "yan", "chang">>), Text(<<"N2">>), Text(<<"G">>)),
      Credit(Text(<<" ", "dao", "yan", " ">>), Text(<<"N3">>), None),
      Credit(None, Text(<<"N4">>), None),
      Credit(Text(<<"B">>), Text(<<" ">>), None),
      Credit(Text(<<"A", "/", "B">>), Text(<<"N5">>), Text(<<"G">>)),
      Credit(Text(LongLabel), Text(<<" ", "N6">>), None),
      [character |-> Text(<<"C">>), cv_info |-> None] }

CvsChoices == UNION { [1..n -> CreditChoices] : n \in 0..MaxCvs }

CallPickMainCvs ==
    /\ call = NoCall
    /\ \E cvs \in CvsChoices, k \in 0..MaxK :
          LET top == pick_top(cvs, k) IN
          call' = [fn |-> "pick_main_cvs", cvs |-> cvs, k |-> k,
                   candidates |-> pick_candidates(cvs, k),
                   top |-> top, ret |-> render_top(top)]
    /\ UNCHANGED main_vars

SpecCast == InitPure /\ [][CallPickMainCvs]_vars

(***************************************************************************)
(* Properties of the orchestrator                                          *)
(***************************************************************************)
RunOver == pc \in {"done", "failed"}

Handled(p) ==
    \E e \in hist : e.run = run /\ e.page = p /\ e.ev \in {"skip_id", "skip_policy", "updated"}

\* C1: once the rows are listed, no failure of a fetch or of a write ends the
\* run: the run ends completed, with every row resolved, schedule-checked
\* and, if due, fetched and written.
C1_PerRecordIsolation ==
    (RunOver /\ rows # << >>) =>
        /\ pc = "done"
        /\ \A i \in 1..Len(rows) : Handled(rows[i].page_id)

Transient(r) == r.kind = "neterr" \/ r.status \in {429, 502, 503, 504}

\* C2: a metadata or episode-listing call that ends in a transient failure
\* (429, 502/503/504, network error) has been tried MAX_RETRIES times.
C2_FetchRetried ==
    (fetchlog.outcome = "raised" /\ Transient(fetchlog.resp)) =>
        fetchlog.attempts = MAX_RETRIES

\* Run 1 wrote page e1.page, whose row was not serial, and e2 is what run 2,
\* started less than the threshold later, did about the same page.
SecondLook(e1, e2) ==
    /\ e1.run = 1
    /\ e1.ev = "written"
    /\ ~e1.serial
    /\ e2.run = 2
    /\ e2.page = e1.page
    /\ e2.at - e1.at < Days(UPDATE_DAYS_SERIAL)

Refreshed(e) == e.ev \in {"due", "patch", "updated", "written", "update_failed"}

\* C5 as stated: whatever the schema, a non-serial record a run has written
\* is not due in the run that follows at once, and gets no write.
C5_RoundTrip_AnySchema ==
    \A e1 \in hist, e2 \in hist : SecondLook(e1, e2) => ~Refreshed(e2)

\* C5: when the schema declares Last Sync, a non-serial record a run has
\* written is not due in the run that follows at once, and gets no write.
C5_RoundTrip ==
    "Last Sync" \in dbschema =>
        \A e1 \in hist, e2 \in hist : SecondLook(e1, e2) => ~Refreshed(e2)

C5_Witness ==
    /\ "Last Sync" \in dbschema
    /\ \E e1 \in hist, e2 \in hist : SecondLook(e1, e2) /\ e2.ev = "skip_policy"

\* The row listed for page p in this run.
RowOf(p) == rows[CHOOSE i \in 1..Len(rows) : rows[i].page_id = p]

\* Something was fetched for, or sent to, page p in this run.
Touched(p) ==
    \E e \in hist : e.run = run /\ e.page = p /\ e.ev \in {"due", "patch", "written", "updated"}

\* C13: a record skipped as unresolved or as not due gets no Content API
\* call and no write, and the loop goes on to the next record; a record is
\* skipped as unresolved only when parse_work_id returned no id.
C13_SkipsSilentAndLocal ==
    \A e \in hist :
        (e.run = run /\ e.ev \in {"skip_id", "skip_policy"}) =>
            /\ ~Touched(e.page)
            /\ pc \in {"row", "done"} => (\E i \in 1..Len(rows) : rows[i].page_id = e.page /\ i < idx)
            /\ e.ev = "skip_id" =>
                  parse_work_id(RowOf(e.page).work_url, RowOf(e.page).work_id_text) = None

\* The place of page p in the rows listed.
IndexOf(p) == CHOOSE i \in 1..Len(rows) : rows[i].page_id = p

Did(p, evs) == \E e \in hist : e.run = run /\ e.page = p /\ e.ev \in evs

InLoopBody == pc \in {"get_drama", "get_episode_details", "update"}

\* Rows are taken one after another in list order: what the run has done, it
\* has done to rows up to the current one, and it is through with the rows
\* before the current one.
OneAfterAnother ==
    /\ \A i, j \in 1..Len(rows) : i # j => rows[i].page_id # rows[j].page_id
    /\ \A e \in hist : e.run = run =>
          /\ \E i \in 1..Len(rows) : rows[i].page_id = e.page
          /\ IndexOf(e.page) <= idx
          /\ IndexOf(e.page) = idx => (InLoopBody \/ pc = "failed")
    /\ \A i \in 1..Len(rows) : i < idx => Handled(rows[i].page_id)

\* A write follows the two fetches of its record and carries the patch built
\* from them.
WriteAfterFetch ==
    /\ \A e \in hist :
          (e.run = run /\ e.ev \in {"patch", "updated", "written", "update_failed"}) =>
              (Did(e.page, {"got_drama"}) /\ Did(e.page, {"got_episodes"}))
    /\ pc = "update" =>
          /\ Did(rows[idx].page_id, {"got_episodes"})
          /\ work_id = parse_work_id(rows[idx].work_url, rows[idx].work_id_text)
          /\ \E detail \in DetailChoices(meta) :
                data = apply_override(rows[idx], maoer_fetch(meta, detail))
          /\ props = build_props(schema, work_id.n, rows[idx].work_url, data)

\* The write of a record is entered once: never for a record already written.
OneWritePerRecord ==
    /\ pc = "update" => ~Did(rows[idx].page_id, {"updated", "written"})
    /\ \A e \in hist :
          (e.run = run /\ e.ev \in {"updated", "written"}) => IndexOf(e.page) < idx

\* The schema is fetched before any row is listed, and from then on it is what
\* the database declared when the run fetched it.
SchemaFetchedFirst ==
    /\ pc \in {"healthcheck", "get_schema"} =>
          (schema = {} /\ rows = << >> /\ ~\E e \in hist : e.run = run)
    /\ (InLoopBody \/ pc \in {"query", "row", "done"}) => schema = dbschema

\* C19: rows are processed one after another in list order; a record is
\* written only after both of its fetches succeeded, with the patch built from
\* them, and at most once in a run; the schema is fetched before the first
\* record and no later step of the run changes it.
C19_StageOrdering ==
    OneAfterAnother /\ WriteAfterFetch /\ OneWritePerRecord /\ SchemaFetchedFirst

\* The second row is about to be written after the first one was.
C19_Witness ==
    /\ pc = "update"
    /\ idx = 2
    /\ Did(rows[1].page_id, {"written"})
    /\ rq.attempt >= 1

\* C20: the request of a write carries the properties of the patch and
\* nothing else, so what the schema does not declare, the cover of the page
\* included, stays as it was before the run (every page starts with the
\* cover "cover0").
C20_WriteWithinPatch ==
    /\ pc = "update" => update_body(props, data.cover_url).cover = None
    /\ \A p \in DOMAIN store :
          /\ store[p].cover = Str("cover0")
          /\ DOMAIN store[p].props = dbschema

\* s without its leading and trailing blanks.
Trimmed(s) ==
    LET inked == {i \in 1..Len(s) : s[i] # " "} IN
    IF inked = {} THEN << >>
    ELSE SubSeq(s, CHOOSE i \in inked : \A j \in inked : i <= j,
                   CHOOSE i \in inked : \A j \in inked : i >= j)

\* The manual override stored on page p, trimmed; empty when there is none.
OverrideOf(p) ==
    IF "Main CV Override" \in DOMAIN store[p].props
       /\ store[p].props["Main CV Override"].t = "text"
    THEN Trimmed(store[p].props["Main CV Override"].toks)
    ELSE << >>

\* C11: the cast text handed to build_props is the record's trimmed override
\* when that is not empty, and the Ranker's output otherwise; it is what the
\* patch carries in CV when the schema declares CV.
C11_OverridePrecedence ==
    pc = "update" =>
        LET ov == OverrideOf(rows[idx].page_id)
            ranked == pick_main_cvs(meta.cvs, DefaultK)
        IN  /\ data.cv_text = (IF ov # << >> THEN ov ELSE ranked)
            /\ ("CV" \in schema /\ data.cv_text # << >>) =>
                  ("CV" \in DOMAIN props /\ props["CV"].v = Text(data.cv_text))

\* A padded override beat a ranked text and went into CV.
C11_Witness ==
    /\ pc = "update"
    /\ "Main CV Override" \in schema
    /\ store[rows[idx].page_id].props["Main CV Override"] = Text(<<" ", "ov", " ">>)
    /\ pick_main_cvs(meta.cvs, DefaultK) \notin { << >>, <<"ov">> }
    /\ "CV" \in schema
    /\ props["CV"].v = Text(<<"ov">>)

(***************************************************************************)
(* Properties of the Write Builder                                         *)
(***************************************************************************)
\* C3: every field of the patch carries a value: none is an explicit null.
C3_NoExplicitNull ==
    call.fn = "build_props" => \A n \in DOMAIN call.ret : call.ret[n].v # None

\* C4: the patch names only fields the schema declares.
C4_PatchWithinSchema ==
    call.fn = "build_props" => DOMAIN call.ret \subseteq call.schema

C4_Witness ==
    /\ call.fn = "build_props"
    /\ "Price" \notin call.schema
    /\ call.data.price # None
    /\ "Title" \in DOMAIN call.ret
    /\ "Price" \notin DOMAIN call.ret

\* C12: when the schema declares Title the patch has Title: the source title
\* when the source gives one, the placeholder "maoer-<work_id>" when the
\* source title is missing or empty, and in no other case.
C12_TitleAlwaysWritten ==
    (call.fn = "build_props" /\ "Title" \in call.schema) =>
        /\ "Title" \in DOMAIN call.ret
        /\ call.ret["Title"].type = "title"
        /\ call.ret["Title"].v =
              (IF call.data.title \in { None, Str("") }
               THEN Str("maoer-" \o ToString(call.work_id))
               ELSE call.data.title)

C12_Witness ==
    /\ call.fn = "build_props"
    /\ call.schema = {"Title"}
    /\ call.data.title = Str("")
    /\ call.work_id = 7
    /\ call.ret["Title"].v = Str("maoer-7")

(***************************************************************************)
(* Properties of the Update Scheduler                                      *)
(***************************************************************************)
Absent(ls) == ls = None \/ ls = Str("")

Parseable(ls) == ls.t = "iso"

\* The instant an ISO text names.
InstantOf(ls) ==
    ls.wall - (CASE ls.tz = "Z" -> 0 [] ls.tz = "offset" -> ls.off [] OTHER -> localtz)

\* C6: due when last_sync is absent or unparseable; not due when it is
\* there and the record is not serial; for a serial record due exactly when
\* now - last_sync >= 7 days.
C6_SchedulerDecision ==
    call.fn = "should_update" =>
        LET ls == call.last_sync_start IN
        call.ret = (IF Absent(ls) \/ ~Parseable(ls) THEN TRUE
                    ELSE IF ~call.is_serial_checked THEN FALSE
                    ELSE now - InstantOf(ls) >= Days(UPDATE_DAYS_SERIAL))

C6_Witness ==
    /\ call.fn = "should_update"
    /\ call.is_serial_checked
    /\ Parseable(call.last_sync_start)
    /\ call.last_sync_start.tz = "offset"
    /\ call.last_sync_start.off # 0
    /\ now - InstantOf(call.last_sync_start) = Days(UPDATE_DAYS_SERIAL)
    /\ call.ret

(***************************************************************************)
(* Properties of the Retry Controller                                      *)
(***************************************************************************)
\* C7: a wrapped call issues at most MAX_RETRIES requests, runs on only
\* while it has issued fewer, and raises exactly when all MAX_RETRIES
\* attempts ended in a retryable outcome.
C7_RetryBounded ==
    /\ rq.attempt <= MAX_RETRIES
    /\ rq.sleeps <= rq.attempt
    /\ rq.state = "running" => rq.attempt < MAX_RETRIES
    /\ (rq.attempt = MAX_RETRIES /\ rq.sleeps = MAX_RETRIES) =>
          (rq.state = "raised" /\ pc = "failed")
    /\ rq.state = "raised" => (rq.attempt = MAX_RETRIES /\ rq.sleeps = MAX_RETRIES)

C7_Witness ==
    /\ rq.state = "raised"
    /\ rq.attempt = MAX_RETRIES
    /\ rq.resp.kind = "neterr"
    /\ failStage = "WRITE"

NonRetryable(r) == r.kind = "response" /\ r.status \notin {429, 502, 503, 504}

\* C8: an answer that is a success or a status other than 429/502/503/504
\* ends the wrapped call in that attempt, without a sleep; the PATCH reports
\* a status other than 200 as a failed update, and raises for 400..599.
C8_NoRetryOnOther ==
    (rq.attempt > 0 /\ NonRetryable(rq.resp)) =>
        /\ rq.state = "returned"
        /\ pc # "update"
        /\ ~rq.slept
        /\ rq.sleeps = rq.attempt - 1
        /\ rq.resp.status # 200 =>
              \E e \in hist : e.page = 1 /\ e.ev = "update_failed"
        /\ raises_for_status(rq.resp.status) => (pc = "failed" /\ failStage = "WRITE")

C8_Witness ==
    /\ rq.state = "returned"
    /\ rq.resp.status = 404
    /\ rq.attempt = 3
    /\ rq.sleeps = 2
    /\ failStage = "WRITE"

\* C9: the wait after a 429 with a numeric Retry-After of d seconds is d
\* plus a jitter in [0, JITTER), whatever the attempt; after any other
\* retryable outcome it is BASE_BACKOFF doubled for every earlier attempt,
\* plus a jitter in [0, JITTER).
C9_WaitDuration ==
    /\ (rq.attempt > 0 /\ Transient(rq.resp)) => rq.slept
    /\ rq.slept =>
          /\ 0 <= rq.jitter
          /\ rq.jitter < JITTER
          /\ rq.wait =
                (IF rq.resp.status = 429 /\ rq.resp.retry_after.t = "numstr"
                 THEN rq.resp.retry_after.n * 1000
                 ELSE BASE_BACKOFF * Pow2(rq.attempt - 1)) + rq.jitter

C9_Witness ==
    /\ rq.slept
    /\ rq.attempt = 3
    /\ rq.resp.status = 429
    /\ rq.resp.retry_after = NumStr(2)
    /\ rq.jitter > 0
    /\ rq.wait = 2000 + rq.jitter

(***************************************************************************)
(* Properties of the paged listing                                         *)
(***************************************************************************)
\* The page ids of the rows read so far.
ListedIds == [i \in 1..Len(listing.rows) |-> listing.rows[i].page_id]

\* C18: the first query carries no token and every later one the token of
\* the answer before it; no query is sent twice; the rows read so far are the
\* records of the pages read, each once and in order; the loop goes on only
\* after an answer that reports more pages, and when it returns it returns
\* every record of the database.
C18_PagedListing ==
    LET l == listing IN
    /\ \A i \in 1..Len(l.requests) :
          l.requests[i] = (IF i = 1 THEN None ELSE l.tokens[i - 1])
    /\ \A i, j \in 1..Len(l.requests) : i # j => l.requests[i] # l.requests[j]
    /\ \A i \in 1..Len(ListedIds) : ListedIds[i] = i
    /\ Len(ListedIds) <= Len(store)
    /\ (pc = "query" /\ l.requests # << >>) => (l.has_more /\ Len(l.tokens) = Len(l.requests))
    /\ l.state = "returned" =>
          /\ ~l.has_more
          /\ pc # "query"
          /\ rows = l.rows
          /\ Len(rows) = Len(store)
          /\ \A i \in 1..(Len(l.tokens) - 1) : l.tokens[i] # None

\* Four records came in three pages and the last answer carried a token.
C18_Witness ==
    /\ listing.state = "returned"
    /\ Len(rows) = 4
    /\ listing.requests = << None, Num(2), Num(4) >>
    /\ listing.tokens[3] # None

(***************************************************************************)
(* Properties of the Source Fetcher                                        *)
(***************************************************************************)
HasTotal(info) == info.pagination # None /\ info.pagination.count # None

ItemsOnPage(info) == IF info.Datas = None THEN 0 ELSE info.Datas.len

\* Title, cover, price, serial flag and newest title are the metadata's.
FromMetadataOnly ==
    /\ call.ret.title = call.meta.drama.name
    /\ call.ret.cover_url = call.meta.drama.cover
    /\ call.ret.price = call.meta.drama.price
    /\ call.ret.is_serial = (call.meta.drama.serialize \in { Bool(TRUE), Num(1) })
    /\ call.ret.newest_title = call.meta.drama.newest

\* C15: the count is the total when the listing has one (0 included), else
\* the number of items on the page, 0 for an empty page; title, cover, price,
\* serial flag and newest title are the metadata's.
C15_EpisodeCountMerge ==
    call.fn = "maoer_fetch" =>
        /\ call.ret.latest_count =
              (IF HasTotal(call.info) THEN call.info.pagination.count
               ELSE Num(ItemsOnPage(call.info)))
        /\ FromMetadataOnly

(***************************************************************************)
(* Properties of the Identifier Resolver                                   *)
(***************************************************************************)
\* Position i of u is where a supported path shape starts.
PathAt(u, i) ==
    /\ u[i] = Lit("/mdrama/")
    /\ \/ (i + 1 <= Len(u) /\ u[i + 1].t = "digits")
       \/ (i + 2 <= Len(u) /\ u[i + 1] = Lit("drama/") /\ u[i + 2].t = "digits")

\* The integer of the path shape that starts at i.
EmbeddedAt(u, i) == IF u[i + 1].t = "digits" THEN u[i + 1].n ELSE u[i + 2].n

AllDecimal(f) == Len(f) = 1 /\ f[1].t = "digits"

\* C14: parse_work_id returns the integer of the first supported path shape
\* in the reference, whatever the fallback; failing that the fallback as an
\* integer when it is all digits; failing that None.  It never raises.
C14_ResolverTotal ==
    call.fn = "parse_work_id" =>
        LET u == call.work_url.toks
            f == call.fallback.toks
            starts == {i \in 1..Len(u) : PathAt(u, i)}
        IN  /\ call.ret # ValueError
            /\ call.ret =
                  (IF starts # {}
                   THEN Num(EmbeddedAt(u, CHOOSE i \in starts : \A j \in starts : i <= j))
                   ELSE IF AllDecimal(f) THEN Num(f[1].n)
                   ELSE None)

(***************************************************************************)
(* Properties of the Cast Ranker                                           *)
(***************************************************************************)
HasStopTerm(label) == \E w \in MUSIC_WORDS_STRONG \cup BAD_WORDS_STRONG : Contains(label, w)

\* C10: no selected entry has a role label containing a term of either
\* stoplist, and none lacks a performer name.
C10_StoplistsNeverBypassed ==
    call.fn = "pick_main_cvs" =>
        \A i \in 1..Len(call.top) :
            /\ ~HasStopTerm(call.top[i].character)
            /\ call.top[i].name # << >>

\* The backfill ran over a list holding a theme-song credit with a name.
C10_Witness ==
    /\ call.fn = "pick_main_cvs"
    /\ Len(first_pass(call.cvs)) < call.k
    /\ \E i \in 1..Len(call.cvs) :
          /\ call.cvs[i].character = Text(<<"zhu", "ti", "qu", "yan", "chang">>)
          /\ credit_name(call.cvs[i]) # << >>
    /\ Len(call.top) >= 2

\* The raw credits of cvs that may be cast: named, and free of stop terms.
Eligible(cvs) ==
    {i \in 1..Len(cvs) :
        credit_name(cvs[i]) # << >> /\ ~HasStopTerm(credit_character(cvs[i]))}

\* C16: every raw credit gives at most one entry of the ranked output, so
\* the output has no more entries than there are eligible credits.
C16_BackfillNoRepeat ==
    call.fn = "pick_main_cvs" => Len(call.top) <= Cardinality(Eligible(call.cvs))

\* c without its i-th element.
Without(c, i) == SubSeq(c, 1, i - 1) \o SubSeq(c, i + 1, Len(c))

\* The first of the candidates with the highest score.
FirstBest(c) ==
    CHOOSE i \in 1..Len(c) :
        /\ \A j \in 1..Len(c) : c[j].score <= c[i].score
        /\ \A j \in 1..(i - 1) : c[j].score < c[i].score

\* Take the first of the best n times over.
RECURSIVE SelectTop(_, _)
SelectTop(c, n) ==
    IF n = 0 \/ c = << >> THEN << >>
    ELSE << c[FirstBest(c)] >> \o SelectTop(Without(c, FirstBest(c)), n - 1)

\* C17: the output has at most k entries; they are the k candidates with the
\* highest scores, in descending order of score, candidates of equal score in
\* the order the loops produced them; no candidate gives the empty text.
C17_RankingOrderAndSize ==
    call.fn = "pick_main_cvs" =>
        /\ Len(call.top) <= call.k
        /\ call.top = SelectTop(call.candidates, call.k)
        /\ \A i \in 1..(Len(call.top) - 1) : call.top[i].score >= call.top[i + 1].score
        /\ call.candidates = << >> => call.ret = << >>
        /\ call.top # << >> => call.ret # << >>

\* More candidates than k, the first of them not the best, and two of equal
\* score and different performers among the selected.
C17_Witness ==
    /\ call.fn = "pick_main_cvs"
    /\ Len(call.candidates) > call.k
    /\ call.top # << >>
    /\ call.candidates[1].score < call.top[1].score
    /\ \E i \in 1..(Len(call.top) - 1) :
          /\ call.top[i].score = call.top[i + 1].score
          /\ call.top[i].name # call.top[i + 1].name

====
